---- MODULE Spec2Model ----
(***************************************************************************)
(* A model of the git-version macros: the process runner (run_git,         *)
(* collect_output, strip_trailing_newline), the describe / git_dir /       *)
(* get_submodules wrappers, the single-target macro git_version_impl and   *)
(* the submodule aggregation git_submodule_versions_impl.                  *)
(*                                                                         *)
(* Strings and byte vectors are sequences of byte values; a Rust String is *)
(* a byte sequence that passed the UTF-8 check.  Every external `git`      *)
(* child process is an input: a record `proc` describing its fate (spawn,  *)
(* wait, exit status, captured stdout and stderr), drawn from a small set  *)
(* when the call is made.                                                  *)
(***************************************************************************)
EXTENDS Integers, Sequences, FiniteSets, TLC

VARIABLES
    entry,      \* the entry point being expanded
    pc,         \* position inside the entry point's body
    args,       \* the parsed macro arguments (Args / GitModArgs)
    env,        \* the process environment: CARGO_MANIFEST_DIR, CARGO_PKG_VERSION
    git_dir,    \* local `git_dir` of git_submodule_versions_impl
    modules,    \* local `modules` of git_submodule_versions_impl
    versions,   \* local `versions` of describe_submodules
    idx,        \* position of the `for submodule in submodules` loop (1-based)
    version,    \* local `version` of git_version_impl (the Ok arm)
    result,     \* the value returned by the entry point
    calls,      \* every child process started so far, in order
    input,      \* the input of the pure-function entry point (run_git)
    gv,         \* the GitVersion builder value of a build script
    param,      \* the arguments of the build-script function called
    defaulted,  \* the fields of gv last set by a setter call with the default value
    printed,    \* the lines printed to stdout (the instructions for cargo)
    errs,       \* the lines printed to stderr
    exit_code   \* the status passed to std::process::exit, if it was called

\* the state of a build script
bvars == <<gv, param, defaulted, printed, errs, exit_code>>

vars == <<entry, pc, args, env, git_dir, modules, versions, idx, version, result, calls, input,
          bvars>>

----------------------------------------------------------------------------
(* Bounds *)

\* longest stdout / stderr of a child process in the runner specification
MaxOut == 3
\* longest stdout of `git submodule foreach` in the aggregation specification
MaxEnumOut == 5

----------------------------------------------------------------------------
(* Bytes and strings *)

NL == 10        \* b'\n'

\* all byte strings over alphabet S of length at most n
RECURSIVE BSeq(_, _)
BSeq(S, n) ==
    IF n = 0 THEN {<<>>}
    ELSE LET shorter == BSeq(S, n - 1)
         IN  shorter \cup {Append(s, b) : s \in {t \in shorter : Len(t) = n - 1}, b \in S}

\* Option<T>
None == [some |-> FALSE, val |-> <<>>]
Some(x) == [some |-> TRUE, val |-> x]

\* Result<T, E>
NoErr == [kind |-> "none"]
Ok(x) == [ok |-> TRUE, val |-> x, err |-> NoErr]
Err(e) == [ok |-> FALSE, val |-> <<>>, err |-> e]

\* no value returned yet
Pending == Err([kind |-> "pending"])

\* std::str::from_utf8 / String::from_utf8 succeed: one-byte and two-byte
\* forms (every byte the model draws is below 0xE0)
RECURSIVE IsUtf8(_)
IsUtf8(bytes) ==
    IF bytes = <<>> THEN TRUE
    ELSE IF Head(bytes) < 128 THEN IsUtf8(Tail(bytes))
    ELSE IF Head(bytes) >= 194 /\ Head(bytes) <= 223
         THEN /\ Len(bytes) >= 2
              /\ bytes[2] >= 128 /\ bytes[2] <= 191
              /\ IsUtf8(Tail(Tail(bytes)))
    ELSE FALSE

\* slice::split(|c| *c == sep): the pieces between separators, empty pieces kept
RECURSIVE SplitOn(_, _)
SplitOn(bytes, sep) ==
    IF \A i \in 1..Len(bytes) : bytes[i] # sep THEN <<bytes>>
    ELSE LET p == CHOOSE i \in 1..Len(bytes) :
                      bytes[i] = sep /\ \A j \in 1..(i - 1) : bytes[j] # sep
         IN  <<SubSeq(bytes, 1, p - 1)>> \o SplitOn(SubSeq(bytes, p + 1, Len(bytes)), sep)

\* str::lines(): split on '\n', no final empty line for a trailing '\n'
\* (the model draws no '\r')
Lines(s) ==
    IF s = <<>> THEN <<>>
    ELSE LET pieces == SplitOn(s, NL)
         IN  IF s[Len(s)] = NL THEN SubSeq(pieces, 1, Len(pieces) - 1) ELSE pieces

\* Iterator::filter on a sequence
RECURSIVE FilterNonEmpty(_)
FilterNonEmpty(seq) ==
    IF seq = <<>> THEN <<>>
    ELSE IF Head(seq) # <<>> THEN <<Head(seq)>> \o FilterNonEmpty(Tail(seq))
    ELSE FilterNonEmpty(Tail(seq))

\* Path::join: an absolute argument replaces the base
\* (47 is '/')
PathJoin(base, path) ==
    IF path # <<>> /\ path[1] = 47 THEN path
    ELSE IF base = <<>> THEN path
    ELSE IF base[Len(base)] = 47 THEN base \o path
    ELSE base \o <<47>> \o path

----------------------------------------------------------------------------
(* Child processes *)

Exited(code) == [kind |-> "exited", n |-> code]
Signaled(sig) == [kind |-> "signaled", n |-> sig]
NoStatus == [kind |-> "unknown", n |-> 0]

\* a child process's fate
Proc(spawn, wait, status, stdout, stderr) ==
    [spawn |-> spawn, wait |-> wait, status |-> status, stdout |-> stdout, stderr |-> stderr]

\* an error message: the format string (kind) and what is formatted into it
Error(kind, program, n, detail) ==
    [kind |-> kind, program |-> program, n |-> n, detail |-> detail]

\* a faulty variant of strip_trailing_newline: every trailing newline removed
RECURSIVE strip_trailing_newlines_all(_)
strip_trailing_newlines_all(bytes) ==
    IF Len(bytes) > 0 /\ bytes[Len(bytes)] = NL
    THEN strip_trailing_newlines_all(SubSeq(bytes, 1, Len(bytes) - 1))
    ELSE bytes

\* Remove a trailing newline from a byte string.
strip_trailing_newline(bytes) ==
    IF Len(bytes) > 0 /\ bytes[Len(bytes)] = NL
    THEN SubSeq(bytes, 1, Len(bytes) - 1)
    ELSE bytes

\* a faulty variant of stderr_message: empty lines are skipped and the first
\* non-empty one is taken
stderr_message_first_nonempty(stderr) ==
    LET lines == FilterNonEmpty(SplitOn(stderr, NL))
    IN  IF lines # <<>> /\ IsUtf8(Head(lines)) THEN Some(Head(lines)) ELSE None

\* the `message` of collect_output: the piece of stderr before the first
\* newline, if it is valid UTF-8 and not empty
stderr_message(stderr) ==
    LET first == Head(SplitOn(stderr, NL))
    IN  IF IsUtf8(first) /\ first # <<>> THEN Some(first) ELSE None

\* a faulty variant of collect_output: a child without an exit code counts as
\* successful
collect_output_no_code_ok(program, output) ==
    IF output.status.kind # "exited" \/ output.status.n = 0
    THEN Ok(output.stdout)
    ELSE Err(Error("ExitStatus", program, output.status.n, stderr_message(output.stderr)))

\* Check if a command ran successfully, and if not, return a verbose error.
collect_output(program, output) ==
    IF output.status.kind = "exited" /\ output.status.n = 0
    THEN Ok(output.stdout)
    ELSE IF output.status.kind = "exited"
    THEN Err(Error("ExitStatus", program, output.status.n, stderr_message(output.stderr)))
    ELSE IF output.status.kind = "signaled"
    THEN Err(Error("Killed", program, output.status.n, None))
    ELSE Err(Error("ExittedWithError", program, 0, None))

\* String::from_utf8(output).map_err(..) at the end of run_git
parse_output(program, bytes) ==
    IF IsUtf8(bytes) THEN Ok(bytes)
    ELSE Err(Error("InvalidUtf8", program, 0, None))

\* spawn the command, wait for it, collect, strip and decode its output
run_git(program, proc) ==
    IF proc.spawn = "NotFound" THEN Err(Error("NotFound", "git", 0, None))
    ELSE IF proc.spawn # "ok" THEN Err(Error("SpawnFailed", "git", 0, None))
    ELSE IF ~proc.wait THEN Err(Error("WaitFailed", program, 0, None))
    ELSE LET collected == collect_output(program, proc)
         IN  IF ~collected.ok THEN collected
             ELSE parse_output(program, strip_trailing_newline(collected.val))

\* Run `git describe` in `dir` with custom flags.
describe(dir, describe_args, proc) == run_git("git describe", proc)

\* Get the git directory for the given directory.
git_dir_of(dir, proc) ==
    LET path == run_git("git rev-parse", proc)
    IN  IF path.ok THEN Ok(PathJoin(dir, path.val)) ELSE path

\* Run `git submodule foreach` to discover submodules in the project.
\* a faulty variant of get_submodules: the lines are not filtered
get_submodules_unfiltered(dir, proc) ==
    LET res == run_git("git submodule", proc)
    IN  IF res.ok THEN Ok(Lines(res.val)) ELSE res

\* get_submodules: the non-empty lines of the output of
\* `git submodule foreach --quiet --recursive "echo $displaypath"`
get_submodules(dir, proc) ==
    LET res == run_git("git submodule", proc)
    IN  IF res.ok THEN Ok(FilterNonEmpty(Lines(res.val))) ELSE res

\* the record of one started child process: the command line and its fate
Call(program, dir, argv, proc) ==
    [program |-> program, dir |-> dir, argv |-> argv, proc |-> proc]

----------------------------------------------------------------------------
(* git_submodule_versions_impl *)

\* error!("failed to determine .git directory: {}", e)
GitDirError(e) == [kind |-> "FailedToDetermineGitDir", cause |-> e]

ManifestDirNotSet == [kind |-> "ManifestDirNotSet"]

\* args.args.map_or_else(|| vec!["--always", "--dirty=-modified"], ..)
git_describe_args(a) ==
    IF a.git_args.some THEN a.git_args.val ELSE <<"--always", "--dirty=-modified">>

\* match args.prefix { Some(x) => x.value(), _ => "".to_string() }
value_or_empty(opt) == IF opt.some THEN opt.val ELSE <<>>

\* the first statements of git_submodule_versions_impl: CARGO_MANIFEST_DIR
\* and the git_dir call
locate_step(a, e, proc) ==
    IF ~e.CARGO_MANIFEST_DIR.some
    THEN [pc |-> "done", git_dir |-> <<>>, result |-> Err(ManifestDirNotSet), calls |-> <<>>]
    ELSE LET dir == e.CARGO_MANIFEST_DIR.val
             res == git_dir_of(dir, proc)
             call == Call("git rev-parse", dir, <<"rev-parse", "--git-dir">>, proc)
         IN  IF res.ok
             THEN [pc |-> "sub_enumerate", git_dir |-> res.val, result |-> Pending, calls |-> <<call>>]
             ELSE [pc |-> "done", git_dir |-> <<>>, result |-> Err(GitDirError(res.err)),
                   calls |-> <<call>>]

\* a faulty variant of enumerate_step: with a fallback configured a failed
\* enumeration counts as no submodules
enumerate_step_fallback(a, e, proc) ==
    LET dir == e.CARGO_MANIFEST_DIR.val
        res == get_submodules(dir, proc)
        call == Call("git submodule", dir,
                     <<"submodule", "foreach", "--quiet", "--recursive", "echo $displaypath">>,
                     proc)
    IN  IF ~res.ok /\ ~a.fallback.some
        THEN [pc |-> "done", modules |-> <<>>, result |-> Err(res.err), calls |-> <<call>>]
        ELSE IF ~res.ok \/ res.val = <<>>
        THEN [pc |-> "done", modules |-> <<>>, result |-> Ok(<<>>), calls |-> <<call>>]
        ELSE [pc |-> "sub_describe", modules |-> res.val, result |-> Pending, calls |-> <<call>>]

\* a faulty variant of enumerate_step: an empty module list is reported as an error
enumerate_step_empty_error(a, e, proc) ==
    LET dir == e.CARGO_MANIFEST_DIR.val
        res == get_submodules(dir, proc)
        call == Call("git submodule", dir,
                     <<"submodule", "foreach", "--quiet", "--recursive", "echo $displaypath">>,
                     proc)
    IN  IF ~res.ok
        THEN [pc |-> "done", modules |-> <<>>, result |-> Err(res.err), calls |-> <<call>>]
        ELSE IF res.val = <<>>
        THEN [pc |-> "done", modules |-> res.val, result |-> Err([kind |-> "NoSubmodules"]),
              calls |-> <<call>>]
        ELSE [pc |-> "sub_describe", modules |-> res.val, result |-> Pending, calls |-> <<call>>]

\* the get_submodules call and the test for an empty module list
enumerate_step(a, e, proc) ==
    LET dir == e.CARGO_MANIFEST_DIR.val
        res == get_submodules(dir, proc)
        call == Call("git submodule", dir,
                     <<"submodule", "foreach", "--quiet", "--recursive", "echo $displaypath">>,
                     proc)
    IN  IF ~res.ok
        THEN [pc |-> "done", modules |-> <<>>, result |-> Err(res.err), calls |-> <<call>>]
        ELSE IF res.val = <<>>
        THEN [pc |-> "done", modules |-> res.val, result |-> Ok(<<>>), calls |-> <<call>>]
        ELSE [pc |-> "sub_describe", modules |-> res.val, result |-> Pending, calls |-> <<call>>]

\* a faulty variant of describe_submodule: the suffix left out of the format string
describe_submodule_no_suffix(describe_res, prefix, suffix, fallback) ==
    IF describe_res.ok THEN Ok(prefix \o describe_res.val)
    ELSE IF fallback.some THEN Ok(prefix \o fallback.val)
    ELSE Err(describe_res.err)

\* a faulty variant of describe_submodule: without a fallback the error is swallowed
\* and an empty version is pushed
describe_submodule_swallow(describe_res, prefix, suffix, fallback) ==
    IF describe_res.ok THEN Ok(prefix \o describe_res.val \o suffix)
    ELSE IF fallback.some THEN Ok(prefix \o fallback.val \o suffix)
    ELSE Ok(prefix \o suffix)

\* the body of the loop of describe_submodules for one submodule: the
\* version pushed, or the error returned
describe_submodule(describe_res, prefix, suffix, fallback) ==
    IF describe_res.ok THEN Ok(prefix \o describe_res.val \o suffix)
    ELSE IF fallback.some THEN Ok(prefix \o fallback.val \o suffix)
    ELSE Err(describe_res.err)

\* a faulty variant of module_versions: the paths paired in reverse order
module_versions_reversed(mods, vers) ==
    [i \in 1..(IF Len(mods) < Len(vers) THEN Len(mods) ELSE Len(vers)) |->
        [path |-> mods[Len(mods) + 1 - i], version |-> vers[i]]]

\* quote!([#((#modules, #versions)),*])
module_versions(mods, vers) ==
    [i \in 1..(IF Len(mods) < Len(vers) THEN Len(mods) ELSE Len(vers)) |->
        [path |-> mods[i], version |-> vers[i]]]

\* a faulty variant of describe_step: a failed `git describe` is run a second
\* time before the error is returned
describe_step_retry(a, root, mods, vers, i, proc) ==
    LET path == PathJoin(root, mods[i])
        describe_args == git_describe_args(a)
        call == Call("git describe", path, describe_args, proc)
        pushed == describe_submodule(describe(path, describe_args, proc),
                                     value_or_empty(a.prefix), value_or_empty(a.suffix),
                                     a.fallback)
    IN  IF ~pushed.ok
        THEN [pc |-> "done", versions |-> vers, idx |-> i, result |-> Err(pushed.err),
              calls |-> <<call, call>>]
        ELSE LET next == Append(vers, pushed.val)
             IN  IF i = Len(mods)
                 THEN [pc |-> "done", versions |-> next, idx |-> i + 1,
                       result |-> Ok(module_versions(mods, next)), calls |-> <<call>>]
                 ELSE [pc |-> "sub_describe", versions |-> next, idx |-> i + 1,
                       result |-> Pending, calls |-> <<call>>]

\* one iteration of the loop of describe_submodules, and after the last one
\* the return through git_submodule_versions_impl
describe_step(a, root, mods, vers, i, proc) ==
    LET path == PathJoin(root, mods[i])
        describe_args == git_describe_args(a)
        call == Call("git describe", path, describe_args, proc)
        pushed == describe_submodule(describe(path, describe_args, proc),
                                     value_or_empty(a.prefix), value_or_empty(a.suffix),
                                     a.fallback)
    IN  IF ~pushed.ok
        THEN [pc |-> "done", versions |-> vers, idx |-> i, result |-> Err(pushed.err),
              calls |-> <<call>>]
        ELSE LET next == Append(vers, pushed.val)
             IN  IF i = Len(mods)
                 THEN [pc |-> "done", versions |-> next, idx |-> i + 1,
                       result |-> Ok(module_versions(mods, next)), calls |-> <<call>>]
                 ELSE [pc |-> "sub_describe", versions |-> next, idx |-> i + 1,
                       result |-> Pending, calls |-> <<call>>]

----------------------------------------------------------------------------
(* git_version_impl *)

\* `git describe` in the current directory of the compiler process
describe_cwd(describe_args, proc) == run_git("git describe", proc)

\* `git rev-parse --git-dir` in the current directory of the compiler process
git_dir_cwd(proc) == git_dir_of(<<>>, proc)

\* "logs/HEAD" and "index"
DepFiles == << <<108, 111, 103, 115, 47, 72, 69, 65, 68>>, <<105, 110, 100, 101, 120>> >>

\* canonicalize_path: `exists` is what the file system answers
canonicalize_path(path, exists) ==
    IF exists THEN Ok(path) ELSE Err([kind |-> "FailedToCanonicalize", path |-> path])

\* eprintln!("Failed to add dependency on the git state: {}. ...", e)
DependencyWarning(e) == [line |-> "Failed to add dependency on the git state", err |-> e]

\* a faulty variant of git_dependencies: a file that cannot be canonicalized
\* is an error
git_dependencies_strict(proc, canon) ==
    LET dir == git_dir_cwd(proc)
    IN  IF ~dir.ok THEN Err(GitDirError(dir.err))
        ELSE LET dep(i) == canonicalize_path(PathJoin(dir.val, DepFiles[i]), canon[i])
             IN  IF ~dep(1).ok THEN dep(1)
                 ELSE IF ~dep(2).ok THEN dep(2)
                 ELSE Ok(<<dep(1).val, dep(2).val>>)

\* Create a token stream representing dependencies on the git state.
git_dependencies(proc, canon) ==
    LET dir == git_dir_cwd(proc)
    IN  IF ~dir.ok THEN Err(GitDirError(dir.err))
        ELSE LET dep(i) == canonicalize_path(PathJoin(dir.val, DepFiles[i]), canon[i])
                 kept(i) == IF dep(i).ok THEN <<dep(i).val>> ELSE <<>>
             IN  Ok(kept(1) \o kept(2))

\* what git_dependencies prints on stderr: one line per file left out
dependency_warnings(proc, canon) ==
    LET dir == git_dir_cwd(proc)
    IN  IF ~dir.ok THEN <<>>
        ELSE LET dep(i) == canonicalize_path(PathJoin(dir.val, DepFiles[i]), canon[i])
                 warned(i) == IF dep(i).ok THEN <<>> ELSE <<DependencyWarning(dep(i).err)>>
             IN  warned(1) \o warned(2)

\* a faulty variant of git_args_of: the default list in the other order
git_args_of_swapped(a) ==
    IF a.git_args.some THEN a.git_args.val ELSE <<"--dirty=-modified", "--always">>

\* args.git_args.map_or_else(|| vec!["--always", "--dirty=-modified"], ..)
git_args_of(a) ==
    IF a.git_args.some THEN a.git_args.val ELSE <<"--always", "--dirty=-modified">>

\* quote!({ #dependencies; concat!(#(#prefix,)* #version, #suffix) })
Tokens(deps, prefix, ver, suffix) ==
    [deps |-> deps, text |-> value_or_empty(prefix) \o ver \o value_or_empty(suffix)]

UnableToGetVersion == [kind |-> "UnableToGetGitOrCargoVersion"]

\* a faulty variant of fallback_tokens: the fallback decorated like a git version
fallback_tokens_decorated(a) == Tokens(<<>>, a.prefix, a.fallback.val, a.suffix)

\* Ok(fallback.to_token_stream())
fallback_tokens(a) == Tokens(<<>>, None, a.fallback.val, None)

\* a faulty variant of describe_failed: the fallback tried before the cargo version
describe_failed_fallback_first(a, e, err) ==
    IF a.fallback.some THEN Ok(fallback_tokens(a))
    ELSE IF a.cargo_prefix.some \/ a.cargo_suffix.some
    THEN IF e.CARGO_PKG_VERSION.some
         THEN Ok(Tokens(<<>>, a.cargo_prefix, e.CARGO_PKG_VERSION.val, a.cargo_suffix))
         ELSE Err(UnableToGetVersion)
    ELSE Err(err)

\* the three Err arms of the match in git_version_impl
describe_failed(a, e, err) ==
    LET cargo_fallback == a.cargo_prefix.some \/ a.cargo_suffix.some
    IN  IF cargo_fallback
        THEN IF e.CARGO_PKG_VERSION.some
             THEN Ok(Tokens(<<>>, a.cargo_prefix, e.CARGO_PKG_VERSION.val, a.cargo_suffix))
             ELSE IF a.fallback.some
             THEN Ok(fallback_tokens(a))
             ELSE Err(UnableToGetVersion)
        ELSE IF a.fallback.some
        THEN Ok(fallback_tokens(a))
        ELSE Err(err)

\* git_version_impl up to the outcome of describe_cwd: the Err arms return,
\* the Ok arm goes on to git_dependencies
version_describe_step(a, e, proc) ==
    LET git_args == git_args_of(a)
        res == describe_cwd(git_args, proc)
        call == Call("git describe", <<>>, git_args, proc)
    IN  IF res.ok
        THEN [pc |-> "gv_dependencies", version |-> res.val, result |-> Pending,
              calls |-> <<call>>]
        ELSE [pc |-> "done", version |-> <<>>, result |-> describe_failed(a, e, res.err),
              calls |-> <<call>>]

\* the Ok arm of git_version_impl
version_ok_step(a, ver, proc, canon) ==
    LET dependencies == git_dependencies(proc, canon)
        call == Call("git rev-parse", <<>>, <<"rev-parse", "--git-dir">>, proc)
        warnings == dependency_warnings(proc, canon)
    IN  IF ~dependencies.ok
        THEN [result |-> Err(dependencies.err), errs |-> warnings, calls |-> <<call>>]
        ELSE [result |-> Ok(Tokens(dependencies.val, a.prefix, ver, a.suffix)),
              errs |-> warnings, calls |-> <<call>>]

----------------------------------------------------------------------------
(* The build-script library: GitVersion and its free functions *)

\* GitVersion::new()
GitVersion_new ==
    [env_var_name |-> "VERSION",
     dirty_suffix |-> Some("-modified"),
     broken_suffix |-> Some("-broken"),
     hash_length |-> 0,
     candidates |-> 10,
     format |-> "Fancy",
     lightweight_tags |-> FALSE,
     contains |-> FALSE,
     first_parent |-> FALSE,
     all_refs |-> FALSE]

\* the ten setter calls that the documentation of GitVersion::new() lists
DocumentedCalls ==
    [env_var_name |-> "VERSION",
     dirty_suffix |-> Some("-modified"),
     broken_suffix |-> Some("-broken"),
     hash_length |-> 0,
     candidates |-> 10,
     format |-> "Fancy",
     lightweight_tags |-> FALSE,
     contains |-> FALSE,
     first_parent |-> FALSE,
     all_refs |-> FALSE]

\* a faulty variant of format: choosing a format also resets the hash length
format_resets_hash_length(g, fmt) == [g EXCEPT !.format = fmt, !.hash_length = 0]

\* the setters of GitVersion
env_var_name(g, name) == [g EXCEPT !.env_var_name = name]
dirty_suffix(g, suffix) == [g EXCEPT !.dirty_suffix = suffix]
broken_suffix(g, suffix) == [g EXCEPT !.broken_suffix = suffix]
hash_length(g, len) == [g EXCEPT !.hash_length = len]
candidates(g, number) == [g EXCEPT !.candidates = number]
format(g, fmt) == [g EXCEPT !.format = fmt]
lightweight_tags(g, val) == [g EXCEPT !.lightweight_tags = val]
contains(g, val) == [g EXCEPT !.contains = val]
first_parent(g, val) == [g EXCEPT !.first_parent = val]
all_refs(g, val) == [g EXCEPT !.all_refs = val]

\* zero or one argument
ArgIf(cond, arg) == IF cond THEN <<arg>> ELSE <<>>

\* a faulty variant of describe_command: --abbrev=<hash_length> is added
\* whatever the format
describe_command_abbrev_twice(g) ==
    << <<"describe">>, <<"--always">>, <<"--candidates=", g.candidates>> >>
    \o ArgIf(g.dirty_suffix.some, <<"--dirty=", g.dirty_suffix.val>>)
    \o ArgIf(g.broken_suffix.some, <<"--broken=", g.broken_suffix.val>>)
    \o ArgIf(g.format = "TagOnly", <<"--abbrev=", 0>>)
    \o ArgIf(g.hash_length > 0, <<"--abbrev=", g.hash_length>>)
    \o ArgIf(g.format = "Long", <<"--long">>)
    \o ArgIf(g.lightweight_tags, <<"--tags">>)
    \o ArgIf(g.contains, <<"--contains">>)
    \o ArgIf(g.first_parent, <<"--first-parent">>)
    \o ArgIf(g.all_refs, <<"--all">>)

\* the command line built by try_set_env; a formatted argument is the pair of
\* its format string and the value formatted into it
describe_command(g) ==
    << <<"describe">>, <<"--always">>, <<"--candidates=", g.candidates>> >>
    \o ArgIf(g.dirty_suffix.some, <<"--dirty=", g.dirty_suffix.val>>)
    \o ArgIf(g.broken_suffix.some, <<"--broken=", g.broken_suffix.val>>)
    \o (IF g.format = "TagOnly" THEN << <<"--abbrev=", 0>> >>
        ELSE ArgIf(g.hash_length > 0, <<"--abbrev=", g.hash_length>>))
    \o ArgIf(g.format = "Long", <<"--long">>)
    \o ArgIf(g.lightweight_tags, <<"--tags">>)
    \o ArgIf(g.contains, <<"--contains">>)
    \o ArgIf(g.first_parent, <<"--first-parent">>)
    \o ArgIf(g.all_refs, <<"--all">>)

\* String::from_utf8_lossy: every invalid byte becomes U+FFFD (EF BF BD)
RECURSIVE Lossy(_)
Lossy(bytes) ==
    IF bytes = <<>> THEN <<>>
    ELSE IF Head(bytes) < 128 THEN <<Head(bytes)>> \o Lossy(Tail(bytes))
    ELSE IF /\ Head(bytes) >= 194 /\ Head(bytes) <= 223
            /\ Len(bytes) >= 2 /\ bytes[2] >= 128 /\ bytes[2] <= 191
         THEN <<bytes[1], bytes[2]>> \o Lossy(Tail(Tail(bytes)))
    ELSE <<239, 191, 189>> \o Lossy(Tail(bytes))

\* println!("cargo:rustc-env={}={}", name, value)
RustcEnv(name, value) == [instr |-> "cargo:rustc-env", name |-> name, value |-> value]

\* println!("cargo:rerun-if-changed=(nonexistentfile)")
RerunIfChanged == [instr |-> "cargo:rerun-if-changed", name |-> "(nonexistentfile)", value |-> <<>>]

\* eprintln!("[git-version] Error: {}", e)
ErrorLine(e) == [line |-> "[git-version] Error", err |-> e]

\* status.code()
ExitCodeOf(status) == IF status.kind = "exited" THEN Some(status.n) ELSE None

\* a faulty variant of try_set_env: the rerun instruction is printed before
\* the status of the child is looked at
try_set_env_rerun_first(g, proc) ==
    LET call == Call("git", <<>>, describe_command(g), proc)
    IN  IF proc.spawn # "ok" \/ ~proc.wait
        THEN [result |-> Err([kind |-> "Io", cause |-> IF proc.spawn # "ok" THEN proc.spawn
                                                      ELSE "wait"]),
              out |-> <<>>, calls |-> <<call>>]
        ELSE IF ~(proc.status.kind = "exited" /\ proc.status.n = 0)
        THEN [result |-> Err([kind |-> "GitFailedToDescribe", code |-> ExitCodeOf(proc.status),
                              stderr |-> Lossy(proc.stderr)]),
              out |-> <<RerunIfChanged>>, calls |-> <<call>>]
        ELSE [result |-> Ok(<<>>),
              out |-> <<RerunIfChanged, RustcEnv(g.env_var_name, Lossy(proc.stdout))>>,
              calls |-> <<call>>]

\* GitVersion::try_set_env: the value returned, the instructions printed and
\* the child process started
try_set_env(g, proc) ==
    LET call == Call("git", <<>>, describe_command(g), proc)
    IN  IF proc.spawn # "ok" \/ ~proc.wait
        THEN [result |-> Err([kind |-> "Io", cause |-> IF proc.spawn # "ok" THEN proc.spawn
                                                      ELSE "wait"]),
              out |-> <<>>, calls |-> <<call>>]
        ELSE IF ~(proc.status.kind = "exited" /\ proc.status.n = 0)
        THEN [result |-> Err([kind |-> "GitFailedToDescribe", code |-> ExitCodeOf(proc.status),
                              stderr |-> Lossy(proc.stderr)]),
              out |-> <<>>, calls |-> <<call>>]
        ELSE [result |-> Ok(<<>>),
              out |-> <<RustcEnv(g.env_var_name, Lossy(proc.stdout)), RerunIfChanged>>,
              calls |-> <<call>>]

\* a faulty variant of set_env_with_default: the error is reported and
\* nothing is printed for cargo
set_env_with_default_silent(g, default_tag, proc) ==
    LET tried == try_set_env(g, proc)
    IN  [result |-> Ok(<<>>), out |-> tried.out,
         errs |-> IF tried.result.ok THEN <<>> ELSE <<ErrorLine(tried.result.err)>>,
         exit |-> None, calls |-> tried.calls]

\* GitVersion::set_env_with_default
set_env_with_default(g, default_tag, proc) ==
    LET tried == try_set_env(g, proc)
    IN  IF ~tried.result.ok
        THEN [result |-> Ok(<<>>),
              out |-> tried.out \o <<RustcEnv(g.env_var_name, default_tag), RerunIfChanged>>,
              errs |-> <<ErrorLine(tried.result.err)>>,
              exit |-> None, calls |-> tried.calls]
        ELSE [result |-> Ok(<<>>), out |-> tried.out, errs |-> <<>>, exit |-> None,
              calls |-> tried.calls]

\* "undetermined"
Undetermined == <<117, 110, 100, 101, 116, 101, 114, 109, 105, 110, 101, 100>>

\* GitVersion::set_env
set_env_of(g, proc) == set_env_with_default(g, Undetermined, proc)

\* the free functions set_env, set_env_with_name and try_set_env_with_name
set_env(proc) == set_env_of(GitVersion_new, proc)
set_env_with_name(name, proc) == set_env_of(env_var_name(GitVersion_new, name), proc)
try_set_env_with_name(name, proc) == try_set_env(env_var_name(GitVersion_new, name), proc)

\* version_cwd of the helper crate: `git describe --always --dirty=-modified`
\* in the current directory
version_cwd(proc) == run_git("git describe", proc)

\* try_set_env_with_name of the git-version crate
crate_try_set_env_with_name(name, proc) ==
    LET ver == version_cwd(proc)
        call == Call("git describe", <<>>, <<"--always", "--dirty=-modified">>, proc)
    IN  IF ~ver.ok
        THEN [result |-> Err(ver.err), out |-> <<>>, calls |-> <<call>>]
        ELSE [result |-> Ok(<<>>), out |-> <<RustcEnv(name, ver.val), RerunIfChanged>>,
              calls |-> <<call>>]

\* a faulty variant of crate_set_env_with_name: the error is printed and the
\* build script goes on
crate_set_env_with_name_no_exit(name, proc) ==
    LET tried == crate_try_set_env_with_name(name, proc)
    IN  [result |-> Ok(<<>>), out |-> tried.out,
         errs |-> IF tried.result.ok THEN <<>> ELSE <<ErrorLine(tried.result.err)>>,
         exit |-> None, calls |-> tried.calls]

\* set_env_with_name of the git-version crate
crate_set_env_with_name(name, proc) ==
    LET tried == crate_try_set_env_with_name(name, proc)
    IN  IF ~tried.result.ok
        THEN [result |-> Pending, out |-> tried.out, errs |-> <<ErrorLine(tried.result.err)>>,
              exit |-> Some(1), calls |-> tried.calls]
        ELSE [result |-> Ok(<<>>), out |-> tried.out, errs |-> <<>>, exit |-> None,
              calls |-> tried.calls]

\* set_env of the git-version crate
crate_set_env(proc) == crate_set_env_with_name("VERSION", proc)

\* a function returning io::Result<()> prints nothing to stderr and does not exit
Returned(tried) ==
    [result |-> tried.result, out |-> tried.out, errs |-> <<>>, exit |-> None,
     calls |-> tried.calls]

----------------------------------------------------------------------------
(* Inputs *)

\* '\n', 'a', and the two bytes of U+00E9 (0xC3 0xA9)
OutBytes == {NL, 97, 195, 169}

\* exit codes other than 0, and signals
FailCodes == {1, 128}
Signals == {9}

Spawned(status, stdout, stderr) == Proc("ok", TRUE, status, stdout, stderr)

\* the child processes of the runner specification
RunnerProcs ==
    {Proc(k, TRUE, Exited(0), <<>>, <<>>) : k \in {"NotFound", "PermissionDenied"}}
    \cup {Proc("ok", FALSE, Exited(0), <<>>, <<>>)}
    \cup {Spawned(Exited(0), out, err) : out \in BSeq(OutBytes, MaxOut), err \in {<<>>, <<97>>}}
    \cup {Spawned(Exited(c), out, err) :
              c \in FailCodes, out \in {<<>>, <<97, NL>>}, err \in BSeq(OutBytes, MaxOut)}
    \cup {Spawned(Signaled(g), <<>>, err) : g \in Signals, err \in {<<>>, <<97>>}}
    \cup {Spawned(NoStatus, <<>>, <<>>)}

\* `git describe`: "v\n", "w", an invalid byte, failures
DescribeProcs ==
    { Spawned(Exited(0), <<118, NL>>, <<>>),
      Spawned(Exited(0), <<119>>, <<>>),
      Spawned(Exited(0), <<169, NL>>, <<>>),
      Spawned(Exited(128), <<>>, <<102, NL>>),
      Proc("NotFound", TRUE, Exited(0), <<>>, <<>>) }

\* `git rev-parse --git-dir`: ".git\n", "/g\n", failures
GitDirProcs ==
    { Spawned(Exited(0), <<46, 103, 105, 116, NL>>, <<>>),
      Spawned(Exited(0), <<47, 103, NL>>, <<>>),
      Spawned(Exited(128), <<>>, <<102, NL>>),
      Spawned(Signaled(9), <<>>, <<>>) }

\* `git submodule foreach`: any lines over 'a', 'b', or a failure
EnumProcs ==
    {Spawned(Exited(0), out, <<>>) : out \in BSeq({NL, 97, 98}, MaxEnumOut)}
    \cup { Spawned(Exited(1), <<>>, <<102, NL>>),
           Spawned(Exited(0), <<195>>, <<>>),
           Proc("PermissionDenied", TRUE, Exited(0), <<>>, <<>>) }

\* args = [...]
ArgLists ==
    { None, Some(<<>>), Some(<<"--always", "--dirty=-modified">>),
      Some(<<"--abbrev=40", "--always">>) }

\* prefix = "[", suffix = "]", cargo_prefix = "c", cargo_suffix = "d", fallback = "u"
Prefixes == {None, Some(<<91>>)}
Suffixes == {None, Some(<<93>>)}
CargoPrefixes == {None, Some(<<99>>)}
CargoSuffixes == {None, Some(<<100>>)}
Fallbacks == {None, Some(<<117>>)}

\* struct Args
Args ==
    [git_args : ArgLists, prefix : Prefixes, suffix : Suffixes,
     cargo_prefix : CargoPrefixes, cargo_suffix : CargoSuffixes, fallback : Fallbacks]

\* struct GitModArgs: no cargo_prefix and no cargo_suffix
GitModArgs == {a \in Args : ~a.cargo_prefix.some /\ ~a.cargo_suffix.some}

NoArgs ==
    [git_args |-> None, prefix |-> None, suffix |-> None,
     cargo_prefix |-> None, cargo_suffix |-> None, fallback |-> None]

\* CARGO_MANIFEST_DIR = "/r" or unset, CARGO_PKG_VERSION = "1" or unset
Envs ==
    [CARGO_MANIFEST_DIR : {None, Some(<<47, 114>>)}, CARGO_PKG_VERSION : {None, Some(<<49>>)}]

\* the child processes of a build script: "v\n", a lone continuation byte,
\* failures
BuildProcs ==
    { Spawned(Exited(0), <<118, NL>>, <<>>),
      Spawned(Exited(0), <<169, NL>>, <<>>),
      Spawned(Exited(128), <<>>, <<102, NL>>),
      Spawned(Signaled(9), <<>>, <<>>),
      Proc("NotFound", TRUE, Exited(0), <<>>, <<>>),
      Proc("ok", FALSE, Exited(0), <<>>, <<>>) }

\* values of the fields of GitVersion
Names == {"VERSION", "CARGO_PKG_VERSION"}
DirtySuffixes == {None, Some("-modified")}
BrokenSuffixes == {None, Some("-broken")}
HashLengths == {0, 7}
Candidates == {0, 10}
Formats == {"TagOnly", "Fancy", "Long"}

GitVersions ==
    [env_var_name : Names, dirty_suffix : DirtySuffixes, broken_suffix : BrokenSuffixes,
     hash_length : HashLengths, candidates : Candidates, format : Formats,
     lightweight_tags : BOOLEAN, contains : BOOLEAN, first_parent : BOOLEAN,
     all_refs : BOOLEAN]

Fields == DOMAIN DocumentedCalls

\* default_tag: "d" or "undetermined"
DefaultTags == {<<100>>, Undetermined}

NoParam == [name |-> "VERSION", default_tag |-> Undetermined]

\* the functions a build script can call
FreeFunctions ==
    {"set_env", "set_env_with_name", "try_set_env_with_name",
     "crate::set_env", "crate::set_env_with_name", "crate::try_set_env_with_name"}
Methods ==
    {"GitVersion::set_env", "GitVersion::set_env_with_default", "GitVersion::try_set_env"}

----------------------------------------------------------------------------
(* Initial states *)

NoLocals ==
    /\ git_dir = <<>>
    /\ modules = <<>>
    /\ versions = <<>>
    /\ idx = 1
    /\ version = <<>>
    /\ result = Pending
    /\ calls = <<>>

NoBuild ==
    /\ gv = GitVersion_new
    /\ param = NoParam
    /\ defaulted = {}
    /\ printed = <<>>
    /\ errs = <<>>
    /\ exit_code = None

NoMacro ==
    /\ args = NoArgs
    /\ env \in {e \in Envs : e.CARGO_MANIFEST_DIR.some /\ e.CARGO_PKG_VERSION.some}
    /\ input = Spawned(Exited(0), <<>>, <<>>)

\* a build script calling one function of the library
InitBuild ==
    /\ entry \in FreeFunctions \cup Methods
    /\ pc = "build"
    /\ gv \in IF entry \in Methods THEN GitVersions ELSE {GitVersion_new}
    /\ param \in [name : IF entry \in FreeFunctions /\ entry \notin {"set_env", "crate::set_env"}
                          THEN Names ELSE {"VERSION"},
                   default_tag : IF entry = "GitVersion::set_env_with_default"
                                 THEN DefaultTags ELSE {Undetermined}]
    /\ defaulted = {}
    /\ printed = <<>>
    /\ errs = <<>>
    /\ exit_code = None
    /\ NoMacro
    /\ NoLocals

\* a build script configuring a GitVersion
InitSetters ==
    /\ entry = "GitVersion"
    /\ pc = "setters"
    /\ gv \in GitVersions
    /\ param = NoParam
    /\ defaulted = {}
    /\ printed = <<>>
    /\ errs = <<>>
    /\ exit_code = None
    /\ NoMacro
    /\ NoLocals

\* a run of run_git on one child process
InitRun ==
    /\ entry = "run_git"
    /\ pc = "run"
    /\ args = NoArgs
    /\ env \in {e \in Envs : e.CARGO_MANIFEST_DIR.some /\ e.CARGO_PKG_VERSION.some}
    /\ input \in RunnerProcs
    /\ NoLocals
    /\ NoBuild

\* an expansion of git_version!(..)
InitVersion ==
    /\ entry = "git_version"
    /\ pc = "gv_describe"
    /\ args \in Args
    /\ env \in {e \in Envs : e.CARGO_MANIFEST_DIR.some}
    /\ input = Spawned(Exited(0), <<>>, <<>>)
    /\ NoLocals
    /\ NoBuild

\* an expansion of git_submodule_versions!(..)
InitSub ==
    /\ entry = "git_submodule_versions"
    /\ pc = "sub_locate"
    /\ args \in GitModArgs
    /\ env \in {e \in Envs : e.CARGO_PKG_VERSION.some}
    /\ input = Spawned(Exited(0), <<>>, <<>>)
    /\ NoLocals
    /\ NoBuild

Init == InitRun \/ InitVersion \/ InitSub \/ InitBuild \/ InitSetters

----------------------------------------------------------------------------
(* Actions *)

\* run_git("git describe", ..) on the input process
RunGit ==
    /\ pc = "run"
    /\ result' = run_git("git describe", input)
    /\ calls' = Append(calls, Call("git describe", <<>>, <<>>, input))
    /\ pc' = "done"
    /\ UNCHANGED <<bvars, entry, args, env, git_dir, modules, versions, idx, version, input>>

\* git_version_impl: describe_cwd and the match on its result
VersionDescribe ==
    /\ pc = "gv_describe"
    /\ \E proc \in DescribeProcs :
          LET r == version_describe_step(args, env, proc)
          IN  /\ pc' = r.pc
              /\ version' = r.version
              /\ result' = r.result
              /\ calls' = calls \o r.calls
    /\ UNCHANGED <<bvars, entry, args, env, git_dir, modules, versions, idx, input>>

\* git_version_impl: the Ok arm, git_dependencies and the tokens
VersionOk ==
    /\ pc = "gv_dependencies"
    /\ \E proc \in GitDirProcs, canon \in [1..2 -> BOOLEAN] :
          LET r == version_ok_step(args, version, proc, canon)
          IN  /\ result' = r.result
              /\ errs' = errs \o r.errs
              /\ calls' = calls \o r.calls
    /\ pc' = "done"
    /\ UNCHANGED <<entry, args, env, git_dir, modules, versions, idx, version, input,
                   gv, param, defaulted, printed, exit_code>>

\* git_submodule_versions_impl: CARGO_MANIFEST_DIR and git_dir
SubLocate ==
    /\ pc = "sub_locate"
    /\ \E proc \in GitDirProcs :
          LET r == locate_step(args, env, proc)
          IN  /\ pc' = r.pc
              /\ git_dir' = r.git_dir
              /\ result' = r.result
              /\ calls' = calls \o r.calls
    /\ UNCHANGED <<bvars, entry, args, env, modules, versions, idx, version, input>>

\* git_submodule_versions_impl: get_submodules and the empty case
SubEnumerate ==
    /\ pc = "sub_enumerate"
    /\ \E proc \in EnumProcs :
          LET r == enumerate_step(args, env, proc)
          IN  /\ pc' = r.pc
              /\ modules' = r.modules
              /\ result' = r.result
              /\ calls' = calls \o r.calls
    /\ UNCHANGED <<bvars, entry, args, env, git_dir, versions, idx, version, input>>

\* describe_submodules: one iteration of the loop over the submodules
SubDescribe ==
    /\ pc = "sub_describe"
    /\ idx <= Len(modules)
    /\ \E proc \in DescribeProcs :
          LET r == describe_step(args, PathJoin(git_dir, <<46, 46>>), modules, versions, idx, proc)
          IN  /\ pc' = r.pc
              /\ versions' = r.versions
              /\ idx' = r.idx
              /\ result' = r.result
              /\ calls' = calls \o r.calls
    /\ UNCHANGED <<bvars, entry, args, env, git_dir, modules, version, input>>

\* the end of a build-script function: what it returned, printed and started
Finish(r) ==
    /\ result' = r.result
    /\ printed' = printed \o r.out
    /\ errs' = errs \o r.errs
    /\ exit_code' = r.exit
    /\ calls' = calls \o r.calls
    /\ pc' = "done"
    /\ UNCHANGED <<entry, args, env, git_dir, modules, versions, idx, version, input,
                   gv, param, defaulted>>

\* set_env()
SetEnv ==
    /\ pc = "build" /\ entry = "set_env"
    /\ \E proc \in BuildProcs : Finish(set_env(proc))

\* set_env_with_name(name)
SetEnvWithName ==
    /\ pc = "build" /\ entry = "set_env_with_name"
    /\ \E proc \in BuildProcs : Finish(set_env_with_name(param.name, proc))

\* try_set_env_with_name(name)
TrySetEnvWithName ==
    /\ pc = "build" /\ entry = "try_set_env_with_name"
    /\ \E proc \in BuildProcs : Finish(Returned(try_set_env_with_name(param.name, proc)))

\* GitVersion::set_env(&self)
GitVersionSetEnv ==
    /\ pc = "build" /\ entry = "GitVersion::set_env"
    /\ \E proc \in BuildProcs : Finish(set_env_of(gv, proc))

\* GitVersion::set_env_with_default(&self, default_tag)
GitVersionSetEnvWithDefault ==
    /\ pc = "build" /\ entry = "GitVersion::set_env_with_default"
    /\ \E proc \in BuildProcs : Finish(set_env_with_default(gv, param.default_tag, proc))

\* GitVersion::try_set_env(&self)
GitVersionTrySetEnv ==
    /\ pc = "build" /\ entry = "GitVersion::try_set_env"
    /\ \E proc \in BuildProcs : Finish(Returned(try_set_env(gv, proc)))

\* set_env() of the git-version crate
CrateSetEnv ==
    /\ pc = "build" /\ entry = "crate::set_env"
    /\ \E proc \in BuildProcs : Finish(crate_set_env(proc))

\* set_env_with_name(name) of the git-version crate
CrateSetEnvWithName ==
    /\ pc = "build" /\ entry = "crate::set_env_with_name"
    /\ \E proc \in BuildProcs : Finish(crate_set_env_with_name(param.name, proc))

\* try_set_env_with_name(name) of the git-version crate
CrateTrySetEnvWithName ==
    /\ pc = "build" /\ entry = "crate::try_set_env_with_name"
    /\ \E proc \in BuildProcs :
          Finish(Returned(crate_try_set_env_with_name(param.name, proc)))

\* a setter call: the new builder value, and whether `field` was now set by
\* the call that the documentation of GitVersion::new() lists for it
Setter(field, value, g) ==
    /\ gv' = g
    /\ defaulted' = IF value = DocumentedCalls[field] THEN defaulted \cup {field}
                    ELSE defaulted \ {field}
    /\ UNCHANGED <<entry, pc, args, env, git_dir, modules, versions, idx, version, result,
                   calls, input, param, printed, errs, exit_code>>

CallEnvVarName ==
    /\ pc = "setters"
    /\ \E v \in Names : Setter("env_var_name", v, env_var_name(gv, v))
CallDirtySuffix ==
    /\ pc = "setters"
    /\ \E v \in DirtySuffixes : Setter("dirty_suffix", v, dirty_suffix(gv, v))
CallBrokenSuffix ==
    /\ pc = "setters"
    /\ \E v \in BrokenSuffixes : Setter("broken_suffix", v, broken_suffix(gv, v))
CallHashLength ==
    /\ pc = "setters"
    /\ \E v \in HashLengths : Setter("hash_length", v, hash_length(gv, v))
CallCandidates ==
    /\ pc = "setters"
    /\ \E v \in Candidates : Setter("candidates", v, candidates(gv, v))
CallFormat ==
    /\ pc = "setters"
    /\ \E v \in Formats : Setter("format", v, format(gv, v))
CallLightweightTags ==
    /\ pc = "setters"
    /\ \E v \in BOOLEAN : Setter("lightweight_tags", v, lightweight_tags(gv, v))
CallContains ==
    /\ pc = "setters"
    /\ \E v \in BOOLEAN : Setter("contains", v, contains(gv, v))
CallFirstParent ==
    /\ pc = "setters"
    /\ \E v \in BOOLEAN : Setter("first_parent", v, first_parent(gv, v))
CallAllRefs ==
    /\ pc = "setters"
    /\ \E v \in BOOLEAN : Setter("all_refs", v, all_refs(gv, v))

NextRun == RunGit
NextBuild ==
    \/ SetEnv \/ SetEnvWithName \/ TrySetEnvWithName
    \/ GitVersionSetEnv \/ GitVersionSetEnvWithDefault \/ GitVersionTrySetEnv
    \/ CrateSetEnv \/ CrateSetEnvWithName \/ CrateTrySetEnvWithName
NextSetters ==
    \/ CallEnvVarName \/ CallDirtySuffix \/ CallBrokenSuffix \/ CallHashLength
    \/ CallCandidates \/ CallFormat \/ CallLightweightTags \/ CallContains
    \/ CallFirstParent \/ CallAllRefs
NextVersion == VersionDescribe \/ VersionOk
NextSub == SubLocate \/ SubEnumerate \/ SubDescribe

Next == NextRun \/ NextVersion \/ NextSub \/ NextBuild \/ NextSetters

Spec == Init /\ [][Next]_vars
SpecRun == InitRun /\ [][NextRun]_vars
SpecVersion == InitVersion /\ [][NextVersion]_vars
SpecSub == InitSub /\ [][NextSub]_vars
SpecBuild == InitBuild /\ [][NextBuild]_vars
SpecSetters == InitSetters /\ [][NextSetters]_vars

TypeOK == pc \in {"run", "gv_describe", "gv_dependencies", "sub_locate", "sub_enumerate",
                   "sub_describe", "build", "setters", "done"}

----------------------------------------------------------------------------
(* Properties *)

\* what the child process of a recorded call returned to its caller
RawOf(call) == run_git(call.program, call.proc)

\* the configured prefix, suffix and default argument list, read off the
\* macro arguments
PrefixOf == IF args.prefix.some THEN args.prefix.val ELSE <<>>
SuffixOf == IF args.suffix.some THEN args.suffix.val ELSE <<>>
CargoFallback == args.cargo_prefix.some \/ args.cargo_suffix.some

\* in git_submodule_versions_impl call 1 is the locator, call 2 the
\* enumerator, and call i + 2 the describe of the i-th submodule
DescribeCallOf(i) == calls[i + 2]

\* C1 (decoration law): when `git describe` succeeded with raw output v, the
\* version git_version yields is exactly prefix + v + suffix, and so is the
\* version of every submodule entry whose describe succeeded.
C1_DecorationLaw ==
    /\ (entry = "git_version" /\ pc = "done" /\ result.ok /\ RawOf(calls[1]).ok)
          => result.val.text = PrefixOf \o RawOf(calls[1]).val \o SuffixOf
    /\ entry = "git_submodule_versions"
          => /\ \A i \in 1..Len(versions) :
                   RawOf(DescribeCallOf(i)).ok
                     => versions[i] = PrefixOf \o RawOf(DescribeCallOf(i)).val \o SuffixOf
             /\ (pc = "done" /\ result.ok)
                   => \A i \in 1..Len(result.val) :
                        RawOf(DescribeCallOf(i)).ok
                          => result.val[i].version
                               = PrefixOf \o RawOf(DescribeCallOf(i)).val \o SuffixOf

\* git_version!(prefix = "[", suffix = "]") returned "[v]" for the output "v\n"
C1_Witness ==
    /\ entry = "git_version" /\ pc = "done" /\ result.ok
    /\ args.prefix.some /\ args.suffix.some
    /\ RawOf(calls[1]).ok /\ RawOf(calls[1]).val = <<118>>
    /\ result.val.text = <<91, 118, 93>>

\* C2 (single-target fallback): without cargo_prefix / cargo_suffix, a failed
\* describe yields exactly the fallback, undecorated, when a fallback is
\* configured, and otherwise the error of the failed tool and no version.
C2_SingleTargetFallback ==
    (entry = "git_version" /\ pc = "done" /\ ~RawOf(calls[1]).ok /\ ~CargoFallback)
      => IF args.fallback.some
         THEN result.ok /\ result.val.text = args.fallback.val
         ELSE ~result.ok /\ result.val = <<>> /\ result.err = RawOf(calls[1]).err

\* describe failed, prefix, suffix and fallback are given, "u" is returned
C2_Witness ==
    /\ entry = "git_version" /\ pc = "done" /\ ~RawOf(calls[1]).ok /\ ~CargoFallback
    /\ args.fallback.some /\ args.prefix.some /\ args.suffix.some
    /\ result.ok /\ result.val.text = <<117>>

\* C3 (submodule fallback is undecorated): the version of every submodule
\* whose describe failed while a fallback is configured is exactly the
\* fallback string.
C3_SubmoduleFallbackUndecorated ==
    entry = "git_submodule_versions"
      => \A i \in 1..Len(versions) :
           (~RawOf(DescribeCallOf(i)).ok /\ args.fallback.some)
             => versions[i] = args.fallback.val

\* C4 (aggregation abort-on-error): when the describe of a submodule fails
\* and no fallback is configured, the call has returned that submodule's
\* error and no sequence of entries.
C4_AbortOnError ==
    entry = "git_submodule_versions"
      => \A i \in 3..Len(calls) :
           (~RawOf(calls[i]).ok /\ ~args.fallback.some)
             => /\ pc = "done"
                /\ ~result.ok /\ result.val = <<>>
                /\ result.err = RawOf(calls[i]).err

\* submodule 2 of 3 failed after submodule 1 was described
C4_Witness ==
    /\ entry = "git_submodule_versions" /\ pc = "done" /\ ~args.fallback.some
    /\ Len(modules) = 3 /\ Len(calls) = 4 /\ Len(versions) = 1
    /\ RawOf(calls[3]).ok /\ ~RawOf(calls[4]).ok
    /\ ~result.ok

\* the result of the locator call and of the enumerator call
LocateOf == git_dir_of(env.CARGO_MANIFEST_DIR.val, calls[1].proc)
EnumerateOf == get_submodules(env.CARGO_MANIFEST_DIR.val, calls[2].proc)

\* C5 (locator and enumerator failures are fatal): when locating the git
\* directory or enumerating the submodules fails, the call has returned an
\* error whatever the configuration, fallback included, and nothing ran after
\* the failed step; a successful result implies that both steps succeeded.
C5_LocatorEnumeratorFatal ==
    entry = "git_submodule_versions"
      => /\ (Len(calls) >= 1 /\ ~LocateOf.ok)
              => /\ pc = "done" /\ Len(calls) = 1
                 /\ ~result.ok /\ result.err = GitDirError(LocateOf.err)
         /\ (Len(calls) >= 2 /\ ~EnumerateOf.ok)
              => /\ pc = "done" /\ Len(calls) = 2
                 /\ ~result.ok /\ result.err = EnumerateOf.err
         /\ (pc = "done" /\ result.ok)
              => Len(calls) >= 2 /\ LocateOf.ok /\ EnumerateOf.ok

\* the enumeration failed while a fallback was configured
C5_Witness ==
    /\ entry = "git_submodule_versions" /\ pc = "done" /\ args.fallback.some
    /\ Len(calls) = 2 /\ LocateOf.ok /\ ~EnumerateOf.ok
    /\ ~result.ok

\* C6 (empty submodule set): when the enumerator succeeds with zero paths the
\* call has returned an empty sequence as a success, for every configuration,
\* and no describe was run.
C6_EmptySubmoduleSet ==
    (entry = "git_submodule_versions" /\ Len(calls) >= 2
       /\ EnumerateOf.ok /\ EnumerateOf.val = <<>>)
      => /\ pc = "done"
         /\ result = Ok(<<>>)
         /\ Len(calls) = 2
         /\ \A i \in 1..Len(calls) : calls[i].program # "git describe"

\* the tool printed only newlines; args, prefix, suffix and fallback are given
C6_Witness ==
    /\ entry = "git_submodule_versions" /\ pc = "done"
    /\ Len(calls) = 2 /\ calls[2].proc.stdout = <<NL, NL>>
    /\ args.git_args.some /\ args.prefix.some /\ args.suffix.some /\ args.fallback.some
    /\ result.ok /\ result.val = <<>>

\* C7 (count and order preservation): a successful aggregation returns one
\* entry per enumerated path, the i-th entry carrying the i-th enumerated path.
C7_CountAndOrder ==
    (entry = "git_submodule_versions" /\ pc = "done" /\ result.ok)
      => /\ Len(result.val) = Len(EnumerateOf.val)
         /\ \A i \in 1..Len(result.val) : result.val[i].path = EnumerateOf.val[i]

\* three paths reported as "b", "a", "b": unsorted and with a duplicate
C7_Witness ==
    /\ entry = "git_submodule_versions" /\ pc = "done" /\ result.ok
    /\ Len(result.val) = 3
    /\ result.val[1].path = <<98>> /\ result.val[2].path = <<97>>
    /\ result.val[3].path = <<98>>

\* C8 (default arguments): every `git describe` is run with the argument list
\* given as `args`, verbatim, and with ["--always", "--dirty=-modified"] when
\* no `args` is given.
C8_DefaultArguments ==
    entry \in {"git_version", "git_submodule_versions"}
      => \A i \in 1..Len(calls) :
           calls[i].program = "git describe"
             => calls[i].argv = IF args.git_args.some THEN args.git_args.val
                                ELSE <<"--always", "--dirty=-modified">>

\* the macro arguments with the default list written out as `args`
ExplicitDefault == [args EXCEPT !.git_args = Some(<<"--always", "--dirty=-modified">>)]

\* C8, second part: with no `args` given, every step that runs `git describe`
\* does for each child process what it does when the default list is given
\* explicitly.
C8_SameAsExplicit ==
    ~args.git_args.some
      => /\ pc = "gv_describe"
              => \A proc \in DescribeProcs :
                   version_describe_step(args, env, proc)
                     = version_describe_step(ExplicitDefault, env, proc)
         /\ (pc = "sub_describe" /\ idx <= Len(modules))
              => \A proc \in DescribeProcs :
                   describe_step(args, PathJoin(git_dir, <<46, 46>>), modules, versions, idx, proc)
                     = describe_step(ExplicitDefault, PathJoin(git_dir, <<46, 46>>), modules,
                                     versions, idx, proc)

\* C8 (both parts)
C8_Default == C8_DefaultArguments /\ C8_SameAsExplicit

\* git_version!() ran `git describe --always --dirty=-modified`
C8_Witness ==
    /\ entry = "git_version" /\ pc = "done" /\ ~args.git_args.some
    /\ Len(calls) >= 1 /\ calls[1].program = "git describe"
    /\ calls[1].argv = <<"--always", "--dirty=-modified">>
    /\ RawOf(calls[1]).ok
    /\ result.ok /\ result.val.text = PrefixOf \o <<118>> \o SuffixOf

\* C9 (cargo fallback precedence): when describe fails and cargo_prefix or
\* cargo_suffix is given, the result is cargo_prefix + CARGO_PKG_VERSION +
\* cargo_suffix if that variable is set, else the fallback if one is given,
\* else an error; prefix and suffix are applied to neither.
C9_CargoFallbackPrecedence ==
    (entry = "git_version" /\ pc = "done" /\ ~RawOf(calls[1]).ok /\ CargoFallback)
      => IF env.CARGO_PKG_VERSION.some
         THEN /\ result.ok
              /\ result.val.text =
                    (IF args.cargo_prefix.some THEN args.cargo_prefix.val ELSE <<>>)
                    \o env.CARGO_PKG_VERSION.val
                    \o (IF args.cargo_suffix.some THEN args.cargo_suffix.val ELSE <<>>)
         ELSE IF args.fallback.some
         THEN result.ok /\ result.val.text = args.fallback.val
         ELSE ~result.ok

\* describe failed with everything configured: "c1d" is returned
C9_Witness ==
    /\ entry = "git_version" /\ pc = "done" /\ ~RawOf(calls[1]).ok
    /\ args.cargo_prefix.some /\ args.cargo_suffix.some /\ args.fallback.some
    /\ args.prefix.some /\ args.suffix.some /\ env.CARGO_PKG_VERSION.some
    /\ result.ok /\ result.val.text = <<99, 49, 100>>

\* valid UTF-8 made of one-byte and two-byte forms, stated position by position
ValidText(bytes) ==
    \A i \in 1..Len(bytes) :
        \/ bytes[i] < 128
        \/ /\ bytes[i] \in 194..223
           /\ i < Len(bytes) /\ bytes[i + 1] \in 128..191
        \/ /\ bytes[i] \in 128..191
           /\ i > 1 /\ bytes[i - 1] \in 194..223

\* C10 (outcome classification): a run yields the outcome its child's fate
\* determines: not-found and other spawn failures, a non-zero exit code with
\* that code, a signal with that signal, invalid UTF-8 on a successful exit,
\* and Ok only for a successful exit with valid UTF-8 output.
C10_OutcomeClassification ==
    (entry = "run_git" /\ pc = "done")
      => LET ran == input.spawn = "ok" /\ input.wait
             status == input.status
         IN  /\ input.spawn = "NotFound" => ~result.ok /\ result.err.kind = "NotFound"
             /\ input.spawn \notin {"ok", "NotFound"}
                  => ~result.ok /\ result.err.kind = "SpawnFailed"
             /\ (ran /\ status.kind = "exited" /\ status.n # 0)
                  => ~result.ok /\ result.err.kind = "ExitStatus" /\ result.err.n = status.n
             /\ (ran /\ status.kind = "signaled")
                  => ~result.ok /\ result.err.kind = "Killed" /\ result.err.n = status.n
             /\ (ran /\ status = Exited(0) /\ ~ValidText(input.stdout))
                  => ~result.ok /\ result.err.kind = "InvalidUtf8"
             /\ result.ok <=> (ran /\ status = Exited(0) /\ ValidText(input.stdout))

\* the child was killed by signal 9 after writing to stderr
C10_Witness ==
    /\ entry = "run_git" /\ pc = "done"
    /\ input.spawn = "ok" /\ input.wait /\ input.status = Signaled(9)
    /\ input.stderr # <<>>
    /\ ~result.ok /\ result.err.kind = "Killed" /\ result.err.n = 9

\* the bytes of `bytes` before its first newline
FirstLine(bytes) ==
    LET ends == {i \in 1..(Len(bytes) + 1) :
                    /\ i = Len(bytes) + 1 \/ bytes[i] = NL
                    /\ \A j \in 1..(i - 1) : bytes[j] # NL}
    IN  SubSeq(bytes, 1, (CHOOSE i \in ends : TRUE) - 1)

\* the run spawned a child that exited with a non-zero code
ExitedNonZero ==
    /\ entry = "run_git" /\ pc = "done"
    /\ input.spawn = "ok" /\ input.wait
    /\ input.status.kind = "exited" /\ input.status.n # 0

\* C11 as claimed (error detail from stderr): after a non-zero exit the detail
\* is the first non-empty line of stderr, and it is omitted only if stderr has
\* no non-empty line of valid UTF-8.
C11_FirstNonEmptyLine ==
    ExitedNonZero
      => LET lines == FilterNonEmpty(SplitOn(input.stderr, NL))
         IN  /\ result.err.detail.some => result.err.detail.val = Head(lines)
             /\ ~result.err.detail.some
                  => \A i \in 1..Len(lines) : ~ValidText(lines[i])

\* C11 as amended: after a non-zero exit the detail is the first line of
\* stderr (the bytes before the first newline) when that line is not empty and
\* is valid UTF-8, and is omitted otherwise; it never holds a newline.
C11_FirstLineOnly ==
    ExitedNonZero
      => LET first == FirstLine(input.stderr)
         IN  /\ result.err.kind = "ExitStatus"
             /\ result.err.detail.some <=> (first # <<>> /\ ValidText(first))
             /\ result.err.detail.some
                  => /\ result.err.detail.val = first
                     /\ \A i \in 1..Len(result.err.detail.val) :
                          result.err.detail.val[i] # NL

\* stderr "a\na" after exit status 128: the detail is "a"
C11_Witness ==
    /\ ExitedNonZero /\ input.status.n = 128
    /\ input.stderr = <<97, NL, 97>>
    /\ result.err.detail = Some(<<97>>)

\* C12 (trailing-newline stripping): the text returned on success is stdout
\* without its last byte when that byte is a newline, and stdout otherwise;
\* stripping output without a trailing newline changes nothing, and stripping
\* twice output with exactly one trailing newline equals stripping it once.
C12_StripOneNewline ==
    LET out == input.stdout
        n == Len(out)
    IN  /\ (entry = "run_git" /\ pc = "done" /\ result.ok)
             => IF n > 0 /\ out[n] = NL
                THEN result.val \o <<NL>> = out
                ELSE result.val = out
        /\ entry = "run_git"
             => /\ (n = 0 \/ out[n] # NL) => strip_trailing_newline(out) = out
                /\ (n > 0 /\ out[n] = NL /\ (n = 1 \/ out[n - 1] # NL))
                     => strip_trailing_newline(strip_trailing_newline(out))
                          = strip_trailing_newline(out)

\* stdout "a\n\n" is returned as "a\n"
C12_Witness ==
    /\ entry = "run_git" /\ pc = "done" /\ result.ok
    /\ input.stdout = <<97, NL, NL>>
    /\ result.val = <<97, NL>>

\* the other nine fields keep their values in a step
OthersKept(field) == \A f \in Fields \ {field} : gv'[f] = gv[f]

\* each setter call leaves the other nine fields alone
SetterFrame ==
    /\ CallEnvVarName => OthersKept("env_var_name")
    /\ CallDirtySuffix => OthersKept("dirty_suffix")
    /\ CallBrokenSuffix => OthersKept("broken_suffix")
    /\ CallHashLength => OthersKept("hash_length")
    /\ CallCandidates => OthersKept("candidates")
    /\ CallFormat => OthersKept("format")
    /\ CallLightweightTags => OthersKept("lightweight_tags")
    /\ CallContains => OthersKept("contains")
    /\ CallFirstParent => OthersKept("first_parent")
    /\ CallAllRefs => OthersKept("all_refs")

\* the command line of the child process of a build-script function
BuildCommand == calls[1].argv

\* the child process of a build-script function, and whether it ran to exit 0
BuildProc == calls[1].proc
ChildSucceeded ==
    BuildProc.spawn = "ok" /\ BuildProc.wait /\ BuildProc.status = Exited(0)

\* the rustc-env instructions printed so far
RustcEnvs == SelectSeq(printed, LAMBDA i : i.instr = "cargo:rustc-env")

\* the variable a build-script function was asked to set
ConfiguredName == IF entry \in Methods THEN gv.env_var_name ELSE param.name

\* the build-script functions that return io::Result<()>
TryEntries == {"GitVersion::try_set_env", "try_set_env_with_name", "crate::try_set_env_with_name"}
\* the builder's functions that fall back to a default, and the default of each
DefaultEntries == {"GitVersion::set_env_with_default", "GitVersion::set_env", "set_env",
                   "set_env_with_name"}
FallbackTag == IF entry = "GitVersion::set_env_with_default" THEN param.default_tag
               ELSE Undetermined
\* the functions of the git-version crate that end the build script on failure
ExitEntries == {"crate::set_env", "crate::set_env_with_name"}

\* a macro call in which a git command failed, with no fallback configured
MacroFailedNoFallback ==
    /\ entry \in {"git_version", "git_submodule_versions"} /\ pc = "done"
    /\ \E i \in 1..Len(calls) : ~RawOf(calls[i]).ok
    /\ ~args.fallback.some /\ ~CargoFallback

\* a build-script function whose version could not be derived
BuildFailed ==
    /\ entry \in FreeFunctions \cup Methods /\ pc = "done"
    /\ IF entry \in {"crate::try_set_env_with_name"} \cup ExitEntries
       THEN ~RawOf(calls[1]).ok ELSE ~ChildSucceeded

\* the failure was surfaced: an Err result or a non-zero exit, and no
\* instruction for cargo
Surfaced ==
    /\ ~result.ok \/ (exit_code.some /\ exit_code.val # 0)
    /\ printed = <<>>

\* C13 as stated (never a silent default): in every entry point a failure to
\* derive the version is surfaced as an error, unless the caller configured a
\* fallback (fallback / cargo_prefix / cargo_suffix of the macros, the
\* default_tag of set_env_with_default).
C13_NeverSilent ==
    /\ MacroFailedNoFallback => ~result.ok
    /\ (BuildFailed /\ entry # "GitVersion::set_env_with_default") => Surfaced

\* C13 (failure is surfaced, or replaced by the documented default): a failure
\* to derive the version is an error of git_version and of the submodule macro
\* when no fallback is configured, an Err of try_set_env and
\* try_set_env_with_name with nothing printed, and exit code 1 of the
\* git-version crate's set_env and set_env_with_name with nothing printed; the
\* builder's set_env, set_env_with_name and GitVersion::set_env report it on
\* stderr and set the variable to "undetermined" without failing the build
\* script, and set_env_with_default sets it to the given default.
C13_SurfacedOrDocumentedDefault ==
    /\ MacroFailedNoFallback => ~result.ok
    /\ (BuildFailed /\ entry \in TryEntries) => (~result.ok /\ printed = <<>>)
    /\ (BuildFailed /\ entry \in ExitEntries)
            => (exit_code = Some(1) /\ printed = <<>> /\ Len(errs) = 1)
    /\ (BuildFailed /\ entry \in DefaultEntries)
            => /\ Len(errs) = 1 /\ errs[1].line = "[git-version] Error"
               /\ exit_code = None /\ result.ok
               /\ RustcEnvs = <<RustcEnv(ConfiguredName, FallbackTag)>>

C13_Witness ==
    /\ entry = "set_env" /\ pc = "done" /\ ~ChildSucceeded
    /\ printed = <<RustcEnv("VERSION", Undetermined), RerunIfChanged>>
    /\ exit_code = None /\ Len(errs) = 1

\* C14 (try_set_env is all-or-nothing): when try_set_env or
\* try_set_env_with_name has returned Err nothing at all was printed for
\* cargo; when it has returned Ok exactly the rustc-env instruction for the
\* configured name and the version was printed, followed by the rerun
\* instruction.
C14_AllOrNothing ==
    (entry \in TryEntries /\ pc = "done")
        => IF result.ok
           THEN /\ Len(printed) = 2
                /\ printed[1].instr = "cargo:rustc-env"
                /\ printed[1].name = ConfiguredName
                /\ entry # "crate::try_set_env_with_name"
                        => printed[1].value = Lossy(BuildProc.stdout)
                /\ printed[2] = RerunIfChanged
           ELSE printed = <<>>

C14_Witness ==
    /\ entry = "try_set_env_with_name" /\ pc = "done" /\ result.ok
    /\ param.name = "CARGO_PKG_VERSION"
    /\ printed = <<RustcEnv("CARGO_PKG_VERSION", <<118, NL>>), RerunIfChanged>>

\* C15 (builder fallback on error): set_env_with_default(d), set_env() and
\* set_env_with_name(name) have printed exactly one rustc-env instruction, for
\* the configured name: with the output of git when the child succeeded and
\* with the default when it did not, the default being d for
\* set_env_with_default and "undetermined" for the others; the free functions
\* run the command of GitVersion::new().
C15_ExactlyOneInstruction ==
    (entry \in DefaultEntries /\ pc = "done")
        => /\ Len(RustcEnvs) = 1
           /\ RustcEnvs[1].name = ConfiguredName
           /\ RustcEnvs[1].value = IF ChildSucceeded THEN Lossy(BuildProc.stdout)
                                   ELSE FallbackTag
           /\ entry \in FreeFunctions => BuildCommand = describe_command(GitVersion_new)

C15_Witness ==
    /\ entry = "GitVersion::set_env_with_default" /\ pc = "done" /\ ~ChildSucceeded
    /\ param.default_tag = <<100>>
    /\ RustcEnvs = <<RustcEnv(gv.env_var_name, <<100>>)>>

\* the command expected at position i of the log of one aggregation, and the
\* directory it is run for
ExpectedProgram(i) ==
    IF i = 1 THEN "git rev-parse" ELSE IF i = 2 THEN "git submodule" ELSE "git describe"
ExpectedDir(i) ==
    IF i <= 2 THEN env.CARGO_MANIFEST_DIR.val
    ELSE PathJoin(PathJoin(git_dir, <<46, 46>>), modules[i - 2])

\* call i of the log failed and was not recovered by a fallback
Unrecovered(i) ==
    IF i = 1 THEN ~LocateOf.ok
    ELSE IF i = 2 THEN ~EnumerateOf.ok
    ELSE ~RawOf(calls[i]).ok /\ ~args.fallback.some

\* a step starts at most one child process and keeps the log of the earlier ones
OneCallPerStep ==
    \/ calls' = calls
    \/ Len(calls') = Len(calls) + 1 /\ SubSeq(calls', 1, Len(calls)) = calls

\* C18 (control-flow order, no retries): the child processes of one
\* aggregation are, in this order, the locator, the enumerator and one
\* describe per enumerated path in enumeration order; nothing is started
\* after an unrecovered failure; a call that succeeded has run all of them,
\* one that failed stopped at the failed command; a call given the manifest
\* directory has run the locator, and the enumerator when the locator
\* succeeded; every step adds at most one child process to the log.
C18_LinearPass ==
    /\ [](entry = "git_submodule_versions"
            => /\ \A i \in 1..Len(calls) :
                     /\ calls[i].program = ExpectedProgram(i)
                     /\ i - 2 <= Len(modules)
                     /\ calls[i].dir = ExpectedDir(i)
                     /\ i < Len(calls) => ~Unrecovered(i)
               /\ (pc = "done" /\ result.ok) => Len(calls) = 2 + Len(modules)
               /\ (pc = "done" /\ ~result.ok /\ env.CARGO_MANIFEST_DIR.some)
                     => (Len(calls) >= 1 /\ Unrecovered(Len(calls)))
               /\ (pc = "done" /\ env.CARGO_MANIFEST_DIR.some /\ LocateOf.ok)
                     => Len(calls) >= 2)
    /\ [][entry = "git_submodule_versions" => OneCallPerStep]_vars

\* two submodules; the describe of the first failed and the fallback stood in
C18_Witness ==
    /\ entry = "git_submodule_versions" /\ pc = "done" /\ result.ok
    /\ Len(modules) = 2 /\ Len(calls) = 4
    /\ ~RawOf(calls[3]).ok /\ RawOf(calls[4]).ok
    /\ calls[3].dir # calls[4].dir

\* the maximal runs of bytes other than '\n'
NonEmptyLines(bytes) == SelectSeq(SplitOn(bytes, NL), LAMBDA l : l # <<>>)

\* C19 (enumeration parsing): when the enumerator succeeded the module list is
\* the sequence of non-empty lines of the captured stdout in their order: no
\* path is empty or holds a newline, and empty output gives the empty list.
C19_NonEmptyLines ==
    (entry = "git_submodule_versions" /\ Len(calls) >= 2 /\ RawOf(calls[2]).ok)
        => /\ EnumerateOf.ok
           /\ modules = NonEmptyLines(calls[2].proc.stdout)
           /\ \A i \in 1..Len(modules) :
                 modules[i] # <<>> /\ \A j \in 1..Len(modules[i]) : modules[i][j] # NL
           /\ calls[2].proc.stdout = <<>> => (modules = <<>> /\ result = Ok(<<>>))

\* stdout "\na\n\nb": an empty first line and an empty line between the paths
C19_Witness ==
    /\ entry = "git_submodule_versions" /\ Len(calls) >= 2
    /\ calls[2].proc.stdout = <<NL, 97, NL, NL, 98>>
    /\ modules = << <<97>>, <<98>> >>

\* the files git_version depends on, under the git directory that call 2 found
DepPath(i) == PathJoin(git_dir_cwd(calls[2].proc).val, DepFiles[i])
\* the file was reported on stderr as left out
Warned(path) == \E k \in 1..Len(errs) : errs[k] = DependencyWarning(canonicalize_path(path, FALSE).err)

\* C20 (fallbacks cover only the describe step): when `git describe` succeeded
\* and the git directory could not be determined, git_version has returned
\* the "failed to determine .git directory" error, whatever fallback,
\* cargo_prefix or cargo_suffix is configured; when the git directory was
\* found the call succeeded with prefix + version + suffix, and its
\* dependencies are logs/HEAD and index, in this order, without exactly the
\* files reported as left out.
C20_FallbackOnlyForDescribe ==
    (entry = "git_version" /\ pc = "done" /\ RawOf(calls[1]).ok)
        => /\ Len(calls) = 2
           /\ IF ~git_dir_cwd(calls[2].proc).ok
              THEN /\ result = Err(GitDirError(git_dir_cwd(calls[2].proc).err))
                   /\ errs = <<>>
              ELSE /\ result.ok
                   /\ result.val.text = PrefixOf \o RawOf(calls[1]).val \o SuffixOf
                   /\ result.val.deps =
                        SelectSeq(<<DepPath(1), DepPath(2)>>, LAMBDA f : ~Warned(f))
                   /\ \A k \in 1..Len(errs) : \E i \in 1..2 :
                         errs[k] = DependencyWarning(canonicalize_path(DepPath(i), FALSE).err)

\* describe succeeded, `git rev-parse --git-dir` failed, and a fallback, a
\* cargo prefix and CARGO_PKG_VERSION were all there
C20_Witness ==
    /\ entry = "git_version" /\ pc = "done" /\ RawOf(calls[1]).ok
    /\ Len(calls) = 2 /\ ~git_dir_cwd(calls[2].proc).ok
    /\ args.fallback.some /\ args.cargo_prefix.some /\ env.CARGO_PKG_VERSION.some
    /\ ~result.ok

\* describe succeeded and logs/HEAD was missing: only index is a dependency
C20_DroppedDependency ==
    /\ entry = "git_version" /\ pc = "done" /\ RawOf(calls[1]).ok
    /\ Len(calls) = 2 /\ git_dir_cwd(calls[2].proc).ok
    /\ result.ok /\ result.val.deps = <<DepPath(2)>>
    /\ Len(errs) = 1

\* C16 (builder defaults and setter frame): every field last set by the call
\* listed for it holds the value GitVersion::new() gives it, so that once
\* the ten calls were made, in any order and from any GitVersion, the value
\* equals GitVersion::new(); and every setter call changes its own field only.
C16_DefaultsAndFrame ==
    /\ [](entry = "GitVersion"
            => /\ \A f \in defaulted : gv[f] = GitVersion_new[f]
               /\ \A f \in defaulted : gv[f] = DocumentedCalls[f]
               /\ defaulted = Fields => gv = GitVersion_new)
    /\ [][SetterFrame]_vars

\* the ten calls with the default values were made
C16_Witness ==
    /\ entry = "GitVersion"
    /\ defaulted = Fields
    /\ Cardinality(defaulted) = 10
    /\ gv = GitVersion_new

\* the arguments of the build script's command that start with a given format
\* string, and whether it holds a given argument
ArgsWith(head) == {i \in 1..Len(BuildCommand) : BuildCommand[i][1] = head}
HasArg(arg) == \E i \in 1..Len(BuildCommand) : BuildCommand[i] = arg

\* C17 (builder command construction): the command has at most one --abbrev=
\* argument: --abbrev=0 exactly for TagOnly, --abbrev=<hash_length> exactly
\* for another format with hash_length > 0, none otherwise; --long is there
\* exactly for Long, and never together with --abbrev=0.
C17_CommandConstruction ==
    (entry \in Methods \cup {"set_env", "set_env_with_name", "try_set_env_with_name"}
       /\ pc = "done")
      => /\ Cardinality(ArgsWith("--abbrev=")) <= 1
         /\ HasArg(<<"--abbrev=", 0>>) <=> gv.format = "TagOnly"
         /\ (gv.format # "TagOnly" /\ gv.hash_length > 0)
              => HasArg(<<"--abbrev=", gv.hash_length>>)
         /\ (\E i \in ArgsWith("--abbrev=") : BuildCommand[i][2] # 0)
              => (gv.format # "TagOnly" /\ gv.hash_length > 0
                  /\ HasArg(<<"--abbrev=", gv.hash_length>>))
         /\ ArgsWith("--abbrev=") = {} <=> (gv.hash_length = 0 /\ gv.format # "TagOnly")
         /\ HasArg(<<"--long">>) <=> gv.format = "Long"
         /\ ~(HasArg(<<"--abbrev=", 0>>) /\ HasArg(<<"--long">>))

\* format TagOnly with hash_length 7: the command has --abbrev=0 only
C17_Witness ==
    /\ entry = "GitVersion::try_set_env" /\ pc = "done"
    /\ gv.format = "TagOnly" /\ gv.hash_length = 7
    /\ HasArg(<<"--abbrev=", 0>>) /\ ~HasArg(<<"--abbrev=", 7>>)
    /\ result.ok

====
